---------------------------- MODULE Spec2Model ----------------------------
(***************************************************************************)
(* certbot-he-hook.py: a certbot manual-auth / cleanup hook that creates   *)
(* and deletes the DNS-01 TXT record through the dns.he.net web console.   *)
(*                                                                         *)
(* One process invocation (main, called by exit(main())) is modelled as a  *)
(* sequence of steps; several invocations run one after the other against  *)
(* one provider state.  The provider (dns.he.net) is the environment: its  *)
(* behaviour is taken from the specification, not from the source.         *)
(***************************************************************************)
EXTENDS Naturals, Sequences, FiniteSets, TLC

(***************************************************************************)
(* Bounds of the model.                                                    *)
(***************************************************************************)
\* number of process invocations in one behaviour
MaxRuns == 2
\* number of records the provider creates in one behaviour
MaxCreated == 2
\* number of table rows of a response page drawn in ScanInit
MaxRows == 3

(***************************************************************************)
(* Program constants.                                                      *)
(***************************************************************************)
\* he_propagation_seconds = 30 when HE_PROPAGATION_SECONDS is unset
DefaultPropagationSeconds == 30

RequiredVars ==
    <<"HE_USERNAME", "HE_PASSWORD", "HE_ZONE", "CERTBOT_DOMAIN", "CERTBOT_VALIDATION">>

AllVars ==
    {RequiredVars[i] : i \in 1..Len(RequiredVars)}
        \cup {"CERTBOT_AUTH_OUTPUT", "HE_PROPAGATION_SECONDS"}

LandingUrl == "https://dns.he.net/"
BaseUrl == "https://dns.he.net"
IndexUrl == "https://dns.he.net/index.cgi"

LoginFailedMsg == "ERROR: HE login failed, check HE_USER and HE_PASS"
ZoneNotFoundMsg == "ERROR: Domain not found in account, check CERTBOT_DOMAIN"
DeleteFailedMsg ==
    "ERROR: Unable to delete validation record, either it does not exist, or it needs to be manually removed"
CreateFailedMsg ==
    "ERROR: Record not created or not found in HE, check that it was created"

\* "ERROR: Required environment variable %s is unset" % KeyError(var):
\* str() of a KeyError is the repr of the key, quotes included
MissingVarMsg(var) ==
    "ERROR: Required environment variable '" \o var \o "' is unset"

\* record_name = "_acme-challenge.%s" % certbot_domain
RecordName(certbot_domain) == "_acme-challenge." \o certbot_domain

(***************************************************************************)
(* The provider account the runs talk to, and the inputs of the runs.      *)
(***************************************************************************)
AccountEmail == "user"
AccountPass == "hunter2"
\* the zones of the account: name and provider-assigned zone id
AccountZones ==
    <<[name |-> "example.com", id |-> "12345"],
      [name |-> "example.net", id |-> "67890"]>>
AccountZoneIds == {AccountZones[i].id : i \in 1..Len(AccountZones)}

\* identifiers the provider hands to newly created records, in order
IdPool == <<"98765", "98766", "98767", "98768", "98769">>

StaleRecord ==
    [id |-> "98001", zone |-> "12345",
     name |-> "_acme-challenge.www.example.com", content |-> "old000"]
OtherRecord ==
    [id |-> "98002", zone |-> "12345",
     name |-> "mail.example.com", content |-> "v=spf1 -all"]

\* the record tables the provider may hold before the first run
InitialTables == {<< >>, <<OtherRecord>>, <<OtherRecord, StaleRecord>>}

Restrict(f, S) == [x \in S |-> f[x]]

DefaultEnv ==
    [v \in AllVars |->
        CASE v = "HE_USERNAME" -> AccountEmail
          [] v = "HE_PASSWORD" -> AccountPass
          [] v = "HE_ZONE" -> "example.com"
          [] v = "CERTBOT_DOMAIN" -> "www.example.com"
          [] v = "CERTBOT_VALIDATION" -> "abc123"
          [] v = "CERTBOT_AUTH_OUTPUT" -> "98765"
          [] v = "HE_PROPAGATION_SECONDS" -> "10"]

AuthOutputs ==
    {"", "98001", "98002"} \cup {IdPool[i] : i \in 1..MaxCreated}

\* every variable given a value
TotalEnvs ==
    {[DefaultEnv EXCEPT !["HE_PASSWORD"] = p, !["HE_ZONE"] = z,
                        !["CERTBOT_VALIDATION"] = v, !["CERTBOT_AUTH_OUTPUT"] = a] :
        p \in {AccountPass, "wrong"}, z \in {"example.com", "other.org"},
        v \in {"abc123", "def456"}, a \in AuthOutputs}

RequiredSet == {RequiredVars[i] : i \in 1..Len(RequiredVars)}

\* the environments a run may be started with: os.environ is a mapping from
\* the names that are set to strings
Environments ==
    {Restrict(t, S) : t \in TotalEnvs,
                      S \in {S \in SUBSET AllVars : RequiredSet \subseteq S}}
        \cup {Restrict(DefaultEnv, S) : S \in SUBSET AllVars}

(***************************************************************************)
(* State.                                                                  *)
(***************************************************************************)
VARIABLES
    records,                \* provider: the record table, in document order
    created,                \* provider: number of records created so far
    runs,                   \* number of invocations started
    environ,                \* os.environ of the current invocation
    pc,                     \* position of the current invocation
    session,                \* the requests.Session: "none", "anonymous", "authenticated"
    cleanup,                \* main: local cleanup
    he_propagation_seconds, \* main: local he_propagation_seconds
    login_response,         \* login: the page answering the login POST
    zones_response,         \* get_zone_id: the management page
    zone_id,                \* get_zone_id's return value
    delete_response,        \* delete_validation: the page answering the delete POST
    create_response,        \* set_validation: the page answering the create POST
    requests,               \* the requests sent to the provider by this invocation
    stdout,                 \* lines printed to standard output
    stderr,                 \* lines printed to the error stream
    result,                 \* how main ended: returned a code, or raised
    slept,                  \* arguments of the completed time.sleep calls
    last_ok,                \* the invocation before this one, when it exited 0
    history                 \* certbot's record of the invocations of a lifecycle

vars ==
    <<records, created, runs, environ, pc, session, cleanup,
      he_propagation_seconds, login_response, zones_response, zone_id,
      delete_response, create_response, requests, stdout, stderr, result,
      slept, last_ok, history>>

\* the pages received by the current invocation
responses == <<login_response, zones_response, delete_response, create_response>>

provider == <<records, created>>

\* what certbot keeps between invocations
certbot == <<last_ok, history>>


(***************************************************************************)
(* Values.                                                                 *)
(***************************************************************************)
NoData == [x \in {} |-> ""]
NoEnv == [x \in {} |-> ""]

\* an HTML response, as far as BeautifulSoup is asked about it: the ids of
\* its <div>s, its <img>s and its <tr>s, in document order
Page(divs, imgs, rows) == [divs |-> divs, imgs |-> imgs, rows |-> rows]
EmptyPage == Page({}, << >>, << >>)

Cell(class, text) == [class |-> class, text |-> text]
Row(class, has_id, id, cells) ==
    [class |-> class, has_id |-> has_id, id |-> id, cells |-> cells]

\* how a function of the program ended
Return(value) == [kind |-> "return", value |-> value, exc |-> "", msg |-> ""]
Raise(exc, msg) == [kind |-> "raise", value |-> "", exc |-> exc, msg |-> msg]

\* how main ended
Running == [kind |-> "running", code |-> 0, exc |-> "", msg |-> ""]
Returned(code) == [kind |-> "return", code |-> code, exc |-> "", msg |-> ""]
Raised(exc, msg) == [kind |-> "raise", code |-> 0, exc |-> exc, msg |-> msg]

\* a Python value that is an int or a str
IntValue(n) == [type |-> "int", int |-> n, str |-> ""]
StrValue(s) == [type |-> "str", int |-> 0, str |-> s]
Unbound == [type |-> "unbound", int |-> 0, str |-> ""]

Get(url) == [method |-> "GET", url |-> url, data |-> NoData]
Post(url, data) == [method |-> "POST", url |-> url, data |-> data]

NoRun == [phase |-> "none", run |-> 0, environ |-> NoEnv, stdout |-> << >>]

(***************************************************************************)
(* The provider, from the specification (sections 4.1 to 4.3).             *)
(***************************************************************************)
\* the page answering the login POST: it carries the error element exactly
\* when the credentials are rejected
ProviderLoginPage(data) ==
    IF data.email = AccountEmail /\ data.pass = AccountPass
    THEN EmptyPage
    ELSE Page({"dns_err"}, << >>, << >>)

\* the session cookie is authenticated by a login POST with the account's
\* credentials
ProviderSession(data) ==
    IF data.email = AccountEmail /\ data.pass = AccountPass
    THEN "authenticated"
    ELSE "anonymous"

\* the management page: one delete <img> per zone of the account, carrying
\* the zone's name and id, next to an edit <img> without a name
ProviderZonesPage(sess) ==
    IF sess = "authenticated"
    THEN Page({},
              [i \in 1..(2 * Len(AccountZones)) |->
                  IF i % 2 = 1
                  THEN [alt |-> "edit", name |-> "", value |-> ""]
                  ELSE [alt |-> "delete", name |-> AccountZones[i \div 2].name,
                        value |-> AccountZones[i \div 2].id]],
              << >>)
    ELSE EmptyPage

LockedRow(zid) ==
    Row("dns_tr_locked", TRUE, "90000",
        <<Cell("hidden", zid), Cell("dns_view", "ns1.he.net")>>)

\* the table row of one record, in the layout the page is served in
RecordRow(rec, layout) ==
    Row(IF layout = "renamed" THEN "record_row" ELSE "dns_tr",
        layout # "no_id",
        IF layout = "no_id" THEN "" ELSE rec.id,
        <<Cell("hidden", rec.zone), Cell("hidden", rec.id),
          Cell(IF layout = "renamed" THEN "record_view" ELSE "dns_view", rec.name),
          Cell("dns_view", "TXT"), Cell("dns_view", "300"),
          Cell("dns_view", rec.content)>>)

Layouts == {"current", "renamed", "no_id"}

\* the record table of a zone as the edit_zone page shows it
ProviderZonePage(table, zid, layout, divs) ==
    LET InZone(rec) == rec.zone = zid
        zt == SelectSeq(table, InZone)
    IN  Page(divs, << >>,
             <<LockedRow(zid)>> \o [i \in 1..Len(zt) |-> RecordRow(zt[i], layout)])

HasRecord(table, zid, rid) ==
    \E i \in 1..Len(table) : table[i].zone = zid /\ table[i].id = rid

RemoveRecord(table, zid, rid) ==
    LET Keep(rec) == ~(rec.zone = zid /\ rec.id = rid)
    IN  SelectSeq(table, Keep)

(***************************************************************************)
(* The program's pure parts.                                               *)
(***************************************************************************)
\* variant of FirstMissing: CERTBOT_VALIDATION is not looked up with the rest
FirstMissing_SkipsValidation(env) ==
    IF \A i \in 1..4 : RequiredVars[i] \in DOMAIN env
    THEN 0
    ELSE CHOOSE i \in 1..4 :
            /\ RequiredVars[i] \notin DOMAIN env
            /\ \A j \in 1..(i - 1) : RequiredVars[j] \in DOMAIN env

\* main, lines 14-19: the first of the five lookups that raises KeyError
\* (0 when none does)
FirstMissing(env) ==
    IF \A i \in 1..Len(RequiredVars) : RequiredVars[i] \in DOMAIN env
    THEN 0
    ELSE CHOOSE i \in 1..Len(RequiredVars) :
            /\ RequiredVars[i] \notin DOMAIN env
            /\ \A j \in 1..(i - 1) : RequiredVars[j] \in DOMAIN env

\* variant of MainCatches: the cleanup branch catches ValueError instead of
\* RuntimeError
MainCatches_CleanupValueError(site) ==
    CASE site = "environ" -> {"KeyError"}
      [] site = "login"   -> {"ValueError"}
      [] site = "cleanup" -> {"ValueError"}
      [] site = "auth"    -> {"ValueError", "RuntimeError"}
      [] site = "sleep"   -> {}

\* the except clauses of main around each call
MainCatches(site) ==
    CASE site = "environ" -> {"KeyError"}
      [] site = "login"   -> {"ValueError"}
      [] site = "cleanup" -> {"RuntimeError"}
      [] site = "auth"    -> {"ValueError", "RuntimeError"}
      [] site = "sleep"   -> {}

\* html.find("div", {"id": id}) is not None
HasDiv(page, id) == id \in page.divs

\* variant of LoginRejected: the login response is not checked
LoginRejected_Never(page) == FALSE

\* variant of LoginRejected: the check looks for the status element
LoginRejected_WrongElement(page) == "dns_status" \in page.divs

\* login: the error <div> is in the response
LoginRejected(page) == HasDiv(page, "dns_err")

\* variant of DeleteConfirmed: the response is not checked
DeleteConfirmed_Unchecked(page) == TRUE

\* delete_validation: the status <div> is in the response
DeleteConfirmed(page) == HasDiv(page, "dns_status")

\* variant of IsCleanup: an empty CERTBOT_AUTH_OUTPUT counts as unset
IsCleanup_Truthy(env) ==
    "CERTBOT_AUTH_OUTPUT" \in DOMAIN env /\ env["CERTBOT_AUTH_OUTPUT"] # ""

\* main: environ["CERTBOT_AUTH_OUTPUT"] does not raise
IsCleanup(env) == "CERTBOT_AUTH_OUTPUT" \in DOMAIN env

LoginData(username, password) == [email |-> username, pass |-> password]

\* get_zone_id: html.find("img", {"name": zone, "alt": "delete"}), then
\* zone_id["value"]
\* variant of IsDeleteImg: the name attribute is not compared
IsDeleteImg_AnyZone(img, zone) ==
    "alt" \in DOMAIN img /\ img.alt = "delete"

IsDeleteImg(img, zone) ==
    /\ "name" \in DOMAIN img /\ img.name = zone
    /\ "alt" \in DOMAIN img /\ img.alt = "delete"

FindZoneId(page, zone) ==
    IF \E i \in 1..Len(page.imgs) : IsDeleteImg(page.imgs[i], zone)
    THEN LET first == CHOOSE i \in 1..Len(page.imgs) :
                        /\ IsDeleteImg(page.imgs[i], zone)
                        /\ \A j \in 1..(i - 1) : ~IsDeleteImg(page.imgs[j], zone)
         IN  Return(page.imgs[first].value)
    ELSE Raise("ValueError", ZoneNotFoundMsg)

\* variant of DeleteData: the zone id and the record id change places
DeleteData_SwappedIds(zid, record_id) ==
    [menu |-> "edit_zone",
     hosted_dns_zoneid |-> record_id,
     hosted_dns_recordid |-> zid,
     hosted_dns_editzone |-> "1",
     hosted_dns_delrecord |-> "1",
     hosted_dns_delconfirm |-> "delete"]

DeleteData(zid, record_id) ==
    [menu |-> "edit_zone",
     hosted_dns_zoneid |-> zid,
     hosted_dns_recordid |-> record_id,
     hosted_dns_editzone |-> "1",
     hosted_dns_delrecord |-> "1",
     hosted_dns_delconfirm |-> "delete"]

\* variant of CreateData: the record name and the token change places
CreateData_SwappedNameContent(zid, record_name, certbot_validation) ==
    [account |-> "",
     menu |-> "edit_zone",
     Type |-> "TXT",
     hosted_dns_zoneid |-> zid,
     hosted_dns_recordid |-> "",
     hosted_dns_editzone |-> "1",
     Priority |-> "",
     Name |-> certbot_validation,
     Content |-> record_name,
     TTL |-> "300",
     hosted_dns_editrecord |-> "Submit"]

CreateData(zid, record_name, certbot_validation) ==
    [account |-> "",
     menu |-> "edit_zone",
     Type |-> "TXT",
     hosted_dns_zoneid |-> zid,
     hosted_dns_recordid |-> "",
     hosted_dns_editzone |-> "1",
     Priority |-> "",
     Name |-> record_name,
     Content |-> certbot_validation,
     TTL |-> "300",
     hosted_dns_editrecord |-> "Submit"]

\* set_validation: records = html.findAll("tr", {"class": "dns_tr"})
DnsRows(page) ==
    LET IsDnsRow(row) == row.class = "dns_tr"
    IN  SelectSeq(page.rows, IsDnsRow)

\* variant of Found: every <td> of the row is looked at, whatever its class
Found_AnyCell(record, record_name) ==
    \E k \in 1..Len(record.cells) : record.cells[k].text = record_name

\* set_validation: the inner loop over record.findAll("td", {"class": "dns_view"})
Found(record, record_name) ==
    \E k \in 1..Len(record.cells) :
        /\ record.cells[k].class = "dns_view"
        /\ record.cells[k].text = record_name

\* set_validation: the outer loop, from the i-th row on
RECURSIVE ScanRecords(_, _, _)
ScanRecords(rows, i, record_name) ==
    IF i > Len(rows)
    THEN Raise("RuntimeError", CreateFailedMsg)
    ELSE IF Found(rows[i], record_name)
         THEN IF rows[i].has_id
              THEN Return(rows[i].id)
              ELSE Raise("KeyError", "'id'")
         ELSE ScanRecords(rows, i + 1, record_name)

\* variant of ScanPage: the function ends without raising when no row matches
ScanPage_NoRaise(page, record_name) ==
    LET r == ScanRecords(DnsRows(page), 1, record_name)
    IN  IF r.kind = "raise" /\ r.exc = "RuntimeError" THEN Return("None") ELSE r

\* variant of ScanPage: when no row matches, the id of the page's last row
\* is taken
ScanPage_FallsBackToLastRow(page, record_name) ==
    LET r == ScanRecords(DnsRows(page), 1, record_name)
    IN  IF r.kind = "raise" /\ r.exc = "RuntimeError" /\ Len(page.rows) > 0
        THEN Return(page.rows[Len(page.rows)].id)
        ELSE r

\* the record id set_validation takes from a response page
ScanPage(page, record_name) == ScanRecords(DnsRows(page), 1, record_name)

\* the interpreter's report of an exception that left main
Traceback(exc, msg) == "Traceback (most recent call last): " \o exc \o ": " \o msg

\* exit(main()): the process's exit status
ExitStatus(res) == IF res.kind = "return" THEN res.code ELSE 1

(***************************************************************************)
(* The invocations.                                                        *)
(***************************************************************************)
Init ==
    /\ records \in InitialTables
    /\ created = 0
    /\ runs = 0
    /\ environ = NoEnv
    /\ pc = "idle"
    /\ session = "none"
    /\ cleanup = FALSE
    /\ he_propagation_seconds = Unbound
    /\ login_response = EmptyPage
    /\ zones_response = EmptyPage
    /\ zone_id = ""
    /\ delete_response = EmptyPage
    /\ create_response = EmptyPage
    /\ requests = << >>
    /\ stdout = << >>
    /\ stderr = << >>
    /\ result = Running
    /\ slept = << >>
    /\ last_ok = NoRun
    /\ history = << >>

\* an exception raised at a call site of main: the matching except clause
\* prints it and returns 1; otherwise it leaves main and the interpreter
\* reports it
Fail(site, exc, msg) ==
    /\ pc' = "exit"
    /\ IF exc \in MainCatches(site)
       THEN /\ stderr' = Append(stderr, msg)
            /\ result' = Returned(1)
       ELSE /\ stderr' = Append(stderr, Traceback(exc, msg))
            /\ result' = Raised(exc, msg)

\* certbot starts the hook with an environment
StartRun(env) ==
    /\ pc = "idle"
    /\ runs < MaxRuns
    /\ runs' = runs + 1
    /\ environ' = env
    /\ pc' = "main"
    /\ UNCHANGED <<provider, session, cleanup, he_propagation_seconds,
                   zone_id, responses, requests, stdout, stderr, result,
                   slept, certbot>>

\* main: the required environment variables
ParseEnv ==
    /\ pc = "main"
    /\ LET missing == FirstMissing(environ)
       IN  IF missing # 0
           THEN Fail("environ", "KeyError", MissingVarMsg(RequiredVars[missing]))
           ELSE /\ pc' = "login"
                /\ UNCHANGED <<stderr, result>>
    /\ UNCHANGED <<provider, runs, environ, session, cleanup,
                   he_propagation_seconds, zone_id, responses, requests,
                   stdout, slept, certbot>>

\* main: session = login(he_username, he_password)
Login ==
    /\ pc = "login"
    /\ LET data == LoginData(environ["HE_USERNAME"], environ["HE_PASSWORD"])
           page == ProviderLoginPage(data)
       IN  /\ requests' = requests \o <<Get(LandingUrl), Post(BaseUrl, data)>>
           /\ login_response' = page
           /\ session' = ProviderSession(data)
           /\ IF LoginRejected(page)
              THEN Fail("login", "ValueError", LoginFailedMsg)
              ELSE /\ pc' = "phase"
                   /\ UNCHANGED <<stderr, result>>
    /\ UNCHANGED <<provider, runs, environ, cleanup, he_propagation_seconds,
                   zones_response, zone_id, delete_response, create_response,
                   stdout, slept, certbot>>

\* main: cleanup is whether CERTBOT_AUTH_OUTPUT is set; the auth branch reads
\* HE_PROPAGATION_SECONDS, a str, and falls back to the int 30
SelectPhase ==
    /\ pc = "phase"
    /\ cleanup' = IsCleanup(environ)
    /\ he_propagation_seconds' =
          IF IsCleanup(environ)
          THEN Unbound
          ELSE IF "HE_PROPAGATION_SECONDS" \in DOMAIN environ
               THEN StrValue(environ["HE_PROPAGATION_SECONDS"])
               ELSE IntValue(DefaultPropagationSeconds)
    /\ pc' = "get_zone_id"
    /\ UNCHANGED <<provider, runs, environ, session, zone_id, responses,
                   requests, stdout, stderr, result, slept, certbot>>

\* delete_validation / set_validation: zone_id = get_zone_id(session, zone);
\* its ValueError is raised again and reaches main's except clauses
GetZoneId ==
    /\ pc = "get_zone_id"
    /\ requests' = Append(requests, Get(BaseUrl))
    /\ zones_response' = ProviderZonesPage(session)
    /\ LET r == FindZoneId(ProviderZonesPage(session), environ["HE_ZONE"])
       IN  IF r.kind = "raise"
           THEN /\ Fail(IF cleanup THEN "cleanup" ELSE "auth", r.exc, r.msg)
                /\ zone_id' = zone_id
           ELSE /\ zone_id' = r.value
                /\ pc' = IF cleanup THEN "delete_post" ELSE "create_post"
                /\ UNCHANGED <<stderr, result>>
    /\ UNCHANGED <<provider, runs, environ, session, cleanup,
                   he_propagation_seconds, login_response, delete_response,
                   create_response, stdout, slept, certbot>>

\* delete_validation: the delete POST and the check of its response; the
\* provider removes the record when the zone holds it and says so
DeletePost ==
    /\ pc = "delete_post"
    /\ LET data == DeleteData(zone_id, environ["CERTBOT_AUTH_OUTPUT"])
           held == HasRecord(records, data.hosted_dns_zoneid, data.hosted_dns_recordid)
           page ==
               ProviderZonePage(RemoveRecord(records, data.hosted_dns_zoneid,
                                             data.hosted_dns_recordid),
                                data.hosted_dns_zoneid, "current",
                                IF held THEN {"dns_status"} ELSE {"dns_err"})
       IN  /\ requests' = Append(requests, Post(IndexUrl, data))
           /\ records' = RemoveRecord(records, data.hosted_dns_zoneid,
                                      data.hosted_dns_recordid)
           /\ delete_response' = page
           /\ IF ~DeleteConfirmed(page)
              THEN Fail("cleanup", "RuntimeError", DeleteFailedMsg)
              ELSE /\ pc' = "exit"
                   /\ result' = Returned(0)
                   /\ stderr' = stderr
    /\ UNCHANGED <<created, runs, environ, session, cleanup,
                   he_propagation_seconds, login_response, zones_response,
                   zone_id, create_response, stdout, slept, certbot>>

\* set_validation: the create POST; the provider accepts it or not, and
\* answers with the zone's record table in some layout
CreatePost(accept, layout) ==
    /\ pc = "create_post"
    /\ LET data == CreateData(zone_id, RecordName(environ["CERTBOT_DOMAIN"]),
                              environ["CERTBOT_VALIDATION"])
           ok == accept /\ created < MaxCreated
                        /\ data.hosted_dns_zoneid \in AccountZoneIds
           table == IF ok
                    THEN Append(records,
                                [id |-> IdPool[created + 1],
                                 zone |-> data.hosted_dns_zoneid,
                                 name |-> data.Name,
                                 content |-> data.Content])
                    ELSE records
       IN  /\ requests' = Append(requests, Post(IndexUrl, data))
           /\ records' = table
           /\ created' = IF ok THEN created + 1 ELSE created
           /\ create_response' =
                 ProviderZonePage(table, data.hosted_dns_zoneid, layout,
                                  IF ok THEN {"dns_status"} ELSE {"dns_err"})
    /\ pc' = "scan"
    /\ UNCHANGED <<runs, environ, session, cleanup, he_propagation_seconds,
                   login_response, zones_response, zone_id, delete_response,
                   stdout, stderr, result, slept, certbot>>

\* set_validation: the scan of the response for the record's row, and main's
\* print(record_id)
ScanResponse ==
    /\ pc = "scan"
    /\ LET r == ScanPage(create_response, RecordName(environ["CERTBOT_DOMAIN"]))
       IN  IF r.kind = "raise"
           THEN /\ Fail("auth", r.exc, r.msg)
                /\ stdout' = stdout
           ELSE /\ stdout' = Append(stdout, r.value)
                /\ pc' = "sleep"
                /\ UNCHANGED <<stderr, result>>
    /\ UNCHANGED <<provider, runs, environ, session, cleanup,
                   he_propagation_seconds, zone_id, responses, requests,
                   slept, certbot>>

\* main: sleep(he_propagation_seconds); return 0.  time.sleep takes a
\* number and raises TypeError for a str
Sleep ==
    /\ pc = "sleep"
    /\ IF he_propagation_seconds.type = "int"
       THEN /\ slept' = Append(slept, he_propagation_seconds.int)
            /\ result' = Returned(0)
            /\ pc' = "exit"
            /\ stderr' = stderr
       ELSE /\ Fail("sleep", "TypeError", "sleep() argument must be a number, not str")
            /\ slept' = slept
    /\ UNCHANGED <<provider, runs, environ, session, cleanup,
                   he_propagation_seconds, zone_id, responses, requests,
                   stdout, certbot>>

\* exit(main()): the process ends with main's result as its status, and
\* nothing of it is kept but what it wrote; certbot keeps the output of a
\* hook that exited 0
ExitProcess ==
    /\ pc = "exit"
    /\ pc' = "idle"
    /\ last_ok' = IF ExitStatus(result) = 0
                  THEN [phase |-> IF cleanup THEN "cleanup" ELSE "auth",
                        run |-> runs, environ |-> environ, stdout |-> stdout]
                  ELSE NoRun
    /\ environ' = NoEnv
    /\ session' = "none"
    /\ cleanup' = FALSE
    /\ he_propagation_seconds' = Unbound
    /\ login_response' = EmptyPage
    /\ zones_response' = EmptyPage
    /\ zone_id' = ""
    /\ delete_response' = EmptyPage
    /\ create_response' = EmptyPage
    /\ requests' = << >>
    /\ stdout' = << >>
    /\ stderr' = << >>
    /\ result' = Running
    /\ slept' = << >>
    /\ UNCHANGED <<provider, runs>>

Exit == ExitProcess /\ UNCHANGED history

Next ==
    \/ \E env \in Environments : StartRun(env)
    \/ ParseEnv
    \/ Login
    \/ SelectPhase
    \/ GetZoneId
    \/ DeletePost
    \/ \E accept \in BOOLEAN, layout \in Layouts : CreatePost(accept, layout)
    \/ ScanResponse
    \/ Sleep
    \/ Exit

Spec == Init /\ [][Next]_vars

(***************************************************************************)
(* set_validation's scan on its own: an auth invocation that has sent the  *)
(* create POST and holds an arbitrary response page.                       *)
(***************************************************************************)
ScanName == RecordName(DefaultEnv["CERTBOT_DOMAIN"])

\* the <td>s a row of a drawn page may hold
CellChoices ==
    {<<Cell("dns_view", "mail.example.com")>>,
     <<Cell("dns_view", ScanName)>>,
     <<Cell("hidden", ScanName)>>,
     <<Cell("dns_view", "mail.example.com"), Cell("dns_view", ScanName)>>,
     <<Cell("hidden", ScanName), Cell("dns_view", "TXT")>>}

\* the rows of a drawn page, before their ids are set
RowShapes ==
    {Row(class, TRUE, "", cells) :
        class \in {"dns_tr", "dns_tr_locked"}, cells \in CellChoices}
        \cup {Row("dns_tr", FALSE, "", <<Cell("dns_view", ScanName)>>)}

\* the i-th row of a page carries the i-th id (when it carries one)
WithIds(shapes) ==
    [i \in 1..Len(shapes) |->
        [shapes[i] EXCEPT !.id = IF shapes[i].has_id THEN IdPool[i] ELSE ""]]

ScanPages ==
    UNION {{Page({"dns_status"}, << >>, WithIds(shapes)) :
                shapes \in [1..n -> RowShapes]} : n \in 0..MaxRows}

ScanInit ==
    /\ records = << >>
    /\ created = 0
    /\ runs = 1
    /\ environ = Restrict(DefaultEnv, RequiredSet)
    /\ pc = "scan"
    /\ session = "authenticated"
    /\ cleanup = FALSE
    /\ he_propagation_seconds =
          IF "HE_PROPAGATION_SECONDS" \in DOMAIN environ
          THEN StrValue(environ["HE_PROPAGATION_SECONDS"])
          ELSE IntValue(DefaultPropagationSeconds)
    /\ login_response = EmptyPage
    /\ zones_response = ProviderZonesPage("authenticated")
    /\ zone_id = "12345"
    /\ delete_response = EmptyPage
    /\ create_response \in ScanPages
    /\ requests =
          <<Get(LandingUrl),
            Post(BaseUrl, LoginData(environ["HE_USERNAME"], environ["HE_PASSWORD"])),
            Get(BaseUrl),
            Post(IndexUrl, CreateData("12345", RecordName(environ["CERTBOT_DOMAIN"]),
                                      environ["CERTBOT_VALIDATION"]))>>
    /\ stdout = << >>
    /\ stderr = << >>
    /\ result = Running
    /\ slept = << >>
    /\ last_ok = NoRun
    /\ history = << >>

ScanNext ==
    \/ ScanResponse
    \/ Sleep
    \/ Exit

SpecScan == ScanInit /\ [][ScanNext]_vars

(***************************************************************************)
(* Vocabulary of the properties.                                           *)
(***************************************************************************)
\* an invocation is under way
InRun == pc # "idle"

\* main has ended, by return or by an exception: the process is about to
\* exit with ExitStatus(result)
Finished == pc = "exit"

IsLandingGet(req) == req.method = "GET" /\ req.url = LandingUrl
IsLoginPost(req) == req.method = "POST" /\ req.url = BaseUrl
IsManagementGet(req) == req.method = "GET" /\ req.url = BaseUrl
IsCreatePost(req) ==
    /\ req.method = "POST" /\ req.url = IndexUrl
    /\ "hosted_dns_editrecord" \in DOMAIN req.data
IsDeletePost(req) ==
    /\ req.method = "POST" /\ req.url = IndexUrl
    /\ "hosted_dns_delrecord" \in DOMAIN req.data

Sent(Is(_)) == {i \in 1..Len(requests) : Is(requests[i])}

AuthOutputSet == "CERTBOT_AUTH_OUTPUT" \in DOMAIN environ
PropagationSet == "HE_PROPAGATION_SECONDS" \in DOMAIN environ
MissingRequired ==
    {"HE_USERNAME", "HE_PASSWORD", "HE_ZONE", "CERTBOT_DOMAIN", "CERTBOT_VALIDATION"}
        \ DOMAIN environ

\* the management page lists no zone of the name HE_ZONE
ZoneAbsent ==
    /\ Sent(IsManagementGet) # {}
    /\ ~\E i \in 1..Len(zones_response.imgs) :
          LET img == zones_response.imgs[i]
          IN  img.alt = "delete" /\ img.name = environ["HE_ZONE"]

\* the rows of the create response that are DNS-record rows with a viewable
\* cell holding the record name
MatchingRows ==
    {i \in 1..Len(create_response.rows) :
        /\ create_response.rows[i].class = "dns_tr"
        /\ \E k \in 1..Len(create_response.rows[i].cells) :
              /\ create_response.rows[i].cells[k].class = "dns_view"
              /\ create_response.rows[i].cells[k].text
                    = "_acme-challenge." \o environ["CERTBOT_DOMAIN"]}

FirstMatchingRow ==
    CHOOSE i \in MatchingRows : \A j \in MatchingRows : i <= j

\* the scan of the create response is over
Scanned == ~AuthOutputSet /\ pc \in {"sleep", "exit"} /\ Sent(IsCreatePost) # {}

\* the number of seconds a value of HE_PROPAGATION_SECONDS asks for
SecondsOf(str) == CASE str = "10" -> 10

(***************************************************************************)
(* Properties.                                                             *)
(***************************************************************************)

\* C1: in both phases, when HE_ZONE is absent from the management page, main
\* handles the resolution failure: it prints the diagnostic to the error
\* stream and returns 1, and no create or delete POST is sent.
C1_ZoneAbsentHandledByMain ==
    (Finished /\ ZoneAbsent) =>
        /\ result = Returned(1)
        /\ stderr = <<ZoneNotFoundMsg>>
        /\ Sent(IsCreatePost) = {}
        /\ Sent(IsDeletePost) = {}

\* the create response confirms the record: the scan finds a row with an id
CreateConfirmed ==
    /\ Scanned
    /\ MatchingRows # {}
    /\ create_response.rows[FirstMatchingRow].has_id

\* C2: an auth invocation whose login, zone resolution and create
\* confirmation succeed prints exactly the RecordId, sleeps for the
\* propagation window (30, or HE_PROPAGATION_SECONDS when set) and returns
\* 0, whether HE_PROPAGATION_SECONDS is set or not.
C2_AuthSuccessSleepsThenReturns0 ==
    (Finished /\ CreateConfirmed) =>
        /\ stdout = <<create_response.rows[FirstMatchingRow].id>>
        /\ slept = <<IF PropagationSet
                     THEN SecondsOf(environ["HE_PROPAGATION_SECONDS"])
                     ELSE 30>>
        /\ result = Returned(0)

\* the current invocation is a cleanup given the RecordId that the
\* invocation before it, a successful auth with the same settings, printed
RoundTripRun ==
    /\ InRun
    /\ last_ok.phase = "auth"
    /\ last_ok.run = runs - 1
    /\ MissingRequired = {}
    /\ AuthOutputSet
    /\ last_ok.stdout = <<environ["CERTBOT_AUTH_OUTPUT"]>>
    /\ Restrict(environ, RequiredSet) = Restrict(last_ok.environ, RequiredSet)

\* C3: the RecordId printed by a successful auth invocation, given as
\* CERTBOT_AUTH_OUTPUT to a following cleanup invocation against the
\* provider state the auth invocation left, makes the cleanup succeed:
\* the delete is confirmed and the exit code is 0.
C3_RoundTrip ==
    RoundTripRun =>
        IF Finished
        THEN /\ result = Returned(0)
             /\ "dns_status" \in delete_response.divs
             /\ Cardinality(Sent(IsDeletePost)) = 1
        ELSE result = Running

C3_RoundTripDone ==
    /\ RoundTripRun
    /\ pc = "exit"
    /\ result = Returned(0)
    /\ Sent(IsDeletePost) # {}

\* C4: when one of the five required variables is missing, in either phase,
\* main prints a diagnostic naming a missing variable, returns 1 and sends
\* no request to the provider.
C4_MissingVariable ==
    (InRun /\ MissingRequired # {}) =>
        /\ requests = << >>
        /\ session = "none"
        /\ Finished =>
              /\ result = Returned(1)
              /\ stdout = << >>
              /\ \E v \in MissingRequired :
                    stderr = <<"ERROR: Required environment variable '" \o v
                                  \o "' is unset">>

C4_MissingValidationInCleanup ==
    /\ Finished
    /\ MissingRequired = {"CERTBOT_VALIDATION"}
    /\ AuthOutputSet
    /\ result = Returned(1)
    /\ requests = << >>

\* C5: login fails exactly when the login response holds the error element
\* (div id dns_err); then main returns 1 and neither the management-page GET
\* nor a mutation POST is sent in that invocation.
C5_LoginFailure ==
    (InRun /\ Sent(IsLoginPost) # {}) =>
        IF "dns_err" \in login_response.divs
        THEN /\ Finished
             /\ result = Returned(1)
             /\ stderr = <<LoginFailedMsg>>
             /\ Sent(IsManagementGet) = {}
             /\ Sent(IsCreatePost) = {}
             /\ Sent(IsDeletePost) = {}
        ELSE \A i \in 1..Len(stderr) : stderr[i] # LoginFailedMsg

C5_LoginRejected ==
    /\ Finished
    /\ "dns_err" \in login_response.divs
    /\ result = Returned(1)
    /\ Len(requests) = 2

\* C6: in a cleanup invocation that sends the delete POST, a response with
\* the status element (div id dns_status) gives exit code 0 and nothing on
\* stdout; a response without it gives the MutationFailure diagnostic on the
\* error stream and exit code 1.
C6_DeleteOutcome ==
    (Finished /\ Sent(IsDeletePost) # {}) =>
        IF "dns_status" \in delete_response.divs
        THEN /\ result = Returned(0)
             /\ stdout = << >>
        ELSE /\ result = Returned(1)
             /\ stderr = <<DeleteFailedMsg>>
             /\ stdout = << >>

C6_DeleteNotConfirmed ==
    /\ Finished
    /\ Sent(IsDeletePost) # {}
    /\ "dns_status" \notin delete_response.divs
    /\ result = Returned(1)

\* C7: in an auth invocation, when the create response has no DNS-record row
\* with a viewable cell equal to _acme-challenge.<CERTBOT_DOMAIN>,
\* set_validation fails with MutationFailure and main returns 1 with nothing
\* on stdout and without sleeping.
C7_NoMatchingRow ==
    (Scanned /\ MatchingRows = {}) =>
        /\ Finished
        /\ result = Returned(1)
        /\ stderr = <<CreateFailedMsg>>
        /\ stdout = << >>
        /\ slept = << >>

C7_CreateNotConfirmed ==
    /\ Finished
    /\ Scanned
    /\ MatchingRows = {}
    /\ Len(create_response.rows) > 1
    /\ result = Returned(1)

\* C8: set_validation returns the id attribute of the first row, in
\* document order, among the DNS-record rows (tr class dns_tr) with at least
\* one viewable cell (td class dns_view) whose text equals the record name;
\* rows before it without such a cell are skipped, rows after it are never
\* returned.  (A first matching row without an id attribute returns nothing:
\* record["id"] raises KeyError.)
C8_FirstMatchingRowId ==
    Scanned =>
        IF MatchingRows = {}
        THEN stdout = << >>
        ELSE IF create_response.rows[FirstMatchingRow].has_id
             THEN stdout = <<create_response.rows[FirstMatchingRow].id>>
             ELSE stdout = << >> /\ result.kind = "raise" /\ result.exc = "KeyError"

C8_SecondOfThreeRows ==
    /\ pc = "sleep"
    /\ Len(create_response.rows) = 3
    /\ create_response.rows[1].class = "dns_tr"
    /\ MatchingRows = {2, 3}
    /\ stdout = <<create_response.rows[2].id>>

\* C9: an invocation with CERTBOT_AUTH_OUTPUT set, to any value, the empty
\* string included, is a cleanup: its delete POST carries exactly that value
\* as the record id and it never sends a create POST; an invocation without
\* it is an auth: it sends a create POST and never a delete POST.
C9_PhaseSelection ==
    InRun =>
        IF AuthOutputSet
        THEN /\ Sent(IsCreatePost) = {}
             /\ \A i \in Sent(IsDeletePost) :
                   requests[i].data.hosted_dns_recordid
                       = environ["CERTBOT_AUTH_OUTPUT"]
             /\ (Finished /\ zone_id # "") => Cardinality(Sent(IsDeletePost)) = 1
        ELSE /\ Sent(IsDeletePost) = {}
             /\ (Finished /\ zone_id # "") => Cardinality(Sent(IsCreatePost)) = 1

C9_EmptyAuthOutputDeletes ==
    /\ Finished
    /\ AuthOutputSet
    /\ environ["CERTBOT_AUTH_OUTPUT"] = ""
    /\ Cardinality(Sent(IsDeletePost)) = 1
    /\ Sent(IsCreatePost) = {}

\* the current invocation repeats the cleanup that the invocation before
\* it completed with exit code 0: same settings, same RecordId
RepeatedCleanupRun ==
    /\ InRun
    /\ last_ok.phase = "cleanup"
    /\ last_ok.run = runs - 1
    /\ MissingRequired = {}
    /\ AuthOutputSet
    /\ Restrict(environ, RequiredSet \cup {"CERTBOT_AUTH_OUTPUT"})
          = Restrict(last_ok.environ, RequiredSet \cup {"CERTBOT_AUTH_OUTPUT"})

\* C10: delete is not idempotent: after a cleanup has deleted a RecordId, a
\* second cleanup with the same RecordId against the resulting provider
\* state ends in MutationFailure with exit code 1, and sends the delete POST
\* once only.
C10_SecondDeleteFails ==
    RepeatedCleanupRun =>
        IF Finished
        THEN /\ result = Returned(1)
             /\ stderr = <<DeleteFailedMsg>>
             /\ "dns_status" \notin delete_response.divs
             /\ Cardinality(Sent(IsDeletePost)) = 1
        ELSE result = Running

C10_SecondDeleteFailed ==
    /\ RepeatedCleanupRun
    /\ pc = "exit"
    /\ result = Returned(1)
    /\ Sent(IsDeletePost) # {}

(***************************************************************************)
(* The hook with every required variable set, over more zones and domains. *)
(***************************************************************************)
InputEnvironments ==
    {Restrict([DefaultEnv EXCEPT !["HE_PASSWORD"] = p, !["HE_ZONE"] = z,
                                 !["CERTBOT_DOMAIN"] = d,
                                 !["CERTBOT_VALIDATION"] = v,
                                 !["CERTBOT_AUTH_OUTPUT"] = a], S) :
        p \in {AccountPass, "wrong"},
        z \in {"example.com", "example.net", "other.org"},
        d \in {"www.example.com", "example.net"},
        v \in {"abc123", "def456"},
        a \in {"98765", "98001"},
        S \in {RequiredSet, RequiredSet \cup {"CERTBOT_AUTH_OUTPUT"}}}

InputsNext ==
    \/ \E env \in InputEnvironments : StartRun(env)
    \/ ParseEnv
    \/ Login
    \/ SelectPhase
    \/ GetZoneId
    \/ DeletePost
    \/ \E accept \in BOOLEAN, layout \in Layouts : CreatePost(accept, layout)
    \/ ScanResponse
    \/ Sleep
    \/ Exit

SpecInputs == Init /\ [][InputsNext]_vars

\* the zone ids the management page received by this invocation gives for
\* the zone name HE_ZONE
ListedZoneIds ==
    {zones_response.imgs[i].value : i \in
        {j \in 1..Len(zones_response.imgs) :
            /\ zones_response.imgs[j].alt = "delete"
            /\ zones_response.imgs[j].name = environ["HE_ZONE"]}}

\* C11: the create POST of an auth invocation has Type TXT, Name
\* _acme-challenge.<CERTBOT_DOMAIN> (the certbot domain, not the zone name),
\* Content CERTBOT_VALIDATION, TTL 300, an empty record-id field and the zone
\* id resolved in this invocation.
C11_CreateForm ==
    InRun =>
        \A i \in Sent(IsCreatePost) :
            /\ requests[i].data.Type = "TXT"
            /\ requests[i].data.Name = "_acme-challenge." \o environ["CERTBOT_DOMAIN"]
            /\ requests[i].data.Content = environ["CERTBOT_VALIDATION"]
            /\ requests[i].data.TTL = "300"
            /\ requests[i].data.hosted_dns_recordid = ""
            /\ requests[i].data.hosted_dns_zoneid \in ListedZoneIds
            /\ requests[i].data.hosted_dns_zoneid = zone_id
            /\ requests[i].data.menu = "edit_zone"

C11_CreateSentForSubdomain ==
    /\ pc = "scan"
    /\ Sent(IsCreatePost) # {}
    /\ environ["HE_ZONE"] = "example.net"
    /\ environ["CERTBOT_DOMAIN"] = "www.example.com"
    /\ environ["CERTBOT_VALIDATION"] = "def456"
    /\ requests[4].data.hosted_dns_zoneid = "67890"

IsMutationPost(req) == IsCreatePost(req) \/ IsDeletePost(req)

\* the kind of request each position of an invocation's request list must hold
InOrder(i) ==
    CASE i = 1 -> IsLandingGet(requests[i])
      [] i = 2 -> IsLoginPost(requests[i])
      [] i = 3 -> IsManagementGet(requests[i])
      [] i = 4 -> IsMutationPost(requests[i])
      [] OTHER -> FALSE

\* C12: the requests of one invocation are, in order, the landing GET, the
\* login POST, the management GET and the mutation POST, each at most once;
\* the mutation POST is sent only after the login was accepted and the zone
\* was found in this invocation, and carries the zone id listed by this
\* invocation's management page.
C12_RequestOrder ==
    InRun =>
        /\ \A i \in 1..Len(requests) : InOrder(i)
        /\ \A i \in Sent(IsMutationPost) :
              /\ ~HasDiv(login_response, "dns_err")
              /\ ListedZoneIds # {}
              /\ requests[i].data.hosted_dns_zoneid \in ListedZoneIds
              /\ requests[i].data.hosted_dns_zoneid = zone_id

\* the second invocation works on another zone than the first did
C12_SecondRunOtherZone ==
    /\ Finished
    /\ runs = 2
    /\ last_ok.run = 1
    /\ last_ok.environ["HE_ZONE"] = "example.com"
    /\ environ["HE_ZONE"] = "example.net"
    /\ Len(requests) = 4
    /\ IsMutationPost(requests[4])
    /\ requests[4].data.hosted_dns_zoneid = "67890"

\* how far along its chain an invocation is: unauthenticated, authenticated,
\* zone resolved, mutation sent, terminal
Stage(p) ==
    CASE p = "idle" -> 0
      [] p = "main" -> 1
      [] p = "login" -> 2
      [] p = "phase" -> 3
      [] p = "get_zone_id" -> 4
      [] p \in {"delete_post", "create_post"} -> 5
      [] p = "scan" -> 6
      [] p = "sleep" -> 7
      [] p = "exit" -> 8

LoginFailed == Sent(IsLoginPost) # {} /\ "dns_err" \in login_response.divs
DeleteFailed == Sent(IsDeletePost) # {} /\ ~("dns_status" \in delete_response.divs)
CreateFailed == Scanned /\ ~CreateConfirmed
MutationConfirmed ==
    \/ Sent(IsDeletePost) # {} /\ "dns_status" \in delete_response.divs
    \/ CreateConfirmed

\* the number of requests an invocation has sent when its step fails
RequestsAtFailure ==
    CASE LoginFailed -> 2
      [] ZoneAbsent -> 3
      [] DeleteFailed \/ CreateFailed -> 4

C13_FailureIsTerminal ==
    InRun =>
        /\ (LoginFailed \/ ZoneAbsent \/ DeleteFailed \/ CreateFailed) =>
              /\ Finished
              /\ ExitStatus(result) = 1
              /\ Len(requests) = RequestsAtFailure
        /\ (Finished /\ ExitStatus(result) = 0) => MutationConfirmed
        /\ Cardinality(Sent(IsLandingGet)) <= 1
        /\ Cardinality(Sent(IsLoginPost)) <= 1
        /\ Cardinality(Sent(IsManagementGet)) <= 1
        /\ Cardinality(Sent(IsCreatePost)) + Cardinality(Sent(IsDeletePost)) <= 1

C13_ForwardStep ==
    /\ pc # "exit" => Stage(pc') > Stage(pc)
    /\ pc = "exit" => pc' = "idle" /\ requests' = << >>
    /\ pc' # "idle" => /\ Len(requests') >= Len(requests)
                       /\ SubSeq(requests', 1, Len(requests)) = requests

\* C13: within one invocation the state only moves forward (unauthenticated,
\* authenticated, zone resolved, record created or deleted, terminal): once
\* the login, the zone resolution or the mutation fails the invocation is
\* over with exit code 1 and has sent nothing after the failing request, no
\* step is taken twice, and the exit code is 0 only when the mutation was
\* confirmed.
C13_ForwardOnly == [](C13_FailureIsTerminal) /\ [][C13_ForwardStep]_vars

\* a cleanup invocation whose zone resolution failed has ended: the
\* exception left main, and the process exits with status 1
C13_CleanupResolutionFailed ==
    /\ Finished
    /\ cleanup
    /\ ZoneAbsent
    /\ result.kind = "raise"
    /\ ExitStatus(result) = 1
    /\ Len(requests) = 3

\* the provider accepted this invocation's create POST: the record it added
\* is the last of the table
CreateAccepted ==
    /\ InRun
    /\ Sent(IsCreatePost) # {}
    /\ "dns_status" \in create_response.divs

CreatedRecord == records[Len(records)]

\* C14: the RecordId that a successful auth invocation prints is the id of
\* the record its own create POST added, whatever the provider held before,
\* records of the same name included.
C14_ReturnsCreatedRecordId ==
    (CreateAccepted /\ stdout # << >>) =>
        /\ CreatedRecord.content = environ["CERTBOT_VALIDATION"]
        /\ stdout = <<CreatedRecord.id>>

(***************************************************************************)
(* One issuance with two validations of the same record name: certbot runs *)
(* the auth hook for each, then the cleanup hook for each, giving every    *)
(* cleanup the output of its auth run.                                     *)
(***************************************************************************)
Validations == <<"abc123", "def456">>

LifecycleEnv(k) ==
    IF k <= Len(Validations)
    THEN Restrict([DefaultEnv EXCEPT !["CERTBOT_VALIDATION"] = Validations[k]],
                  RequiredSet)
    ELSE Restrict([DefaultEnv EXCEPT
                      !["CERTBOT_VALIDATION"] = Validations[k - Len(Validations)],
                      !["CERTBOT_AUTH_OUTPUT"] =
                          history[k - Len(Validations)].stdout[1]],
                  RequiredSet \cup {"CERTBOT_AUTH_OUTPUT"})

\* certbot goes on as long as the auth hooks exit 0 with an output
LifecycleStart ==
    /\ pc = "idle"
    /\ runs < 2 * Len(Validations)
    /\ Len(history) = runs
    /\ \A i \in 1..Len(history) :
          history[i].phase = "auth" =>
              history[i].status = 0 /\ history[i].stdout # << >>
    /\ runs' = runs + 1
    /\ environ' = LifecycleEnv(runs + 1)
    /\ pc' = "main"
    /\ UNCHANGED <<provider, session, cleanup, he_propagation_seconds,
                   zone_id, responses, requests, stdout, stderr, result,
                   slept, certbot>>

LifecycleExit ==
    /\ ExitProcess
    /\ history' = Append(history,
                         [phase |-> IF cleanup THEN "cleanup" ELSE "auth",
                          status |-> ExitStatus(result),
                          stdout |-> stdout])

LifecycleNext ==
    \/ LifecycleStart
    \/ ParseEnv
    \/ Login
    \/ SelectPhase
    \/ GetZoneId
    \/ DeletePost
    \/ \E accept \in BOOLEAN, layout \in Layouts : CreatePost(accept, layout)
    \/ ScanResponse
    \/ Sleep
    \/ LifecycleExit

SpecLifecycle == Init /\ [][LifecycleNext]_vars

\* the validation records on the provider that hold one of the tokens
RemainingValidations ==
    {i \in 1..Len(records) :
        /\ records[i].name = RecordName(DefaultEnv["CERTBOT_DOMAIN"])
        /\ \E k \in 1..Len(Validations) : records[i].content = Validations[k]}

\* C15: two validations of one record name with different tokens, run as
\* auth(1), auth(2), cleanup(1), cleanup(2) against one provider state: the
\* two auth invocations print distinct RecordIds, both cleanup invocations
\* exit 0, and afterwards no validation record of these invocations remains.
C15_IndependentLifecycles ==
    Len(history) = 2 * Len(Validations) =>
        /\ \A i, j \in 1..Len(Validations) :
              i # j => history[i].stdout # history[j].stdout
        /\ \A k \in (Len(Validations) + 1)..(2 * Len(Validations)) :
              history[k].status = 0
        /\ RemainingValidations = {}

\* the create was accepted and the scan of its response found no row
OrphanCase == CreateAccepted /\ Scanned /\ MatchingRows = {}

C16_OrphanLeft ==
    OrphanCase =>
        /\ Finished
        /\ ExitStatus(result) = 1
        /\ Sent(IsDeletePost) = {}
        /\ Len(requests) = 4
        /\ stdout = << >>
        /\ CreatedRecord =
              [id |-> IdPool[created],
               zone |-> zone_id,
               name |-> "_acme-challenge." \o environ["CERTBOT_DOMAIN"],
               content |-> environ["CERTBOT_VALIDATION"]]

\* once the create POST is answered the invocation changes nothing on the
\* provider
C16_ProviderUntouched ==
    pc \in {"scan", "sleep", "exit"} => records' = records /\ created' = created

\* C16: no rollback.  When the provider accepted the create POST but the
\* scan of the response finds no matching row, the auth invocation ends with
\* exit code 1, sends no delete request, prints no RecordId, and the created
\* record stays on the provider as it was created.
C16_NoRollback == [](C16_OrphanLeft) /\ [][C16_ProviderUntouched]_vars

C16_OrphanedRecord ==
    /\ Finished
    /\ OrphanCase
    /\ result = Returned(1)
    /\ stderr = <<CreateFailedMsg>>
    /\ CreatedRecord.id = IdPool[created]
    /\ CreatedRecord.content = environ["CERTBOT_VALIDATION"]

=============================================================================
